---- MODULE Spec2Model ----
(***************************************************************************)
(* Caption pipeline of the automatic video caption generator:              *)
(*   - the transcription normalizers of the server                         *)
(*     (processTranscription, processWhisperTranscription,                 *)
(*      processGeminiTranscription),                                       *)
(*   - the per-frame resolver of the Remotion composition                  *)
(*     (CaptionedVideo: activeCaptions, currentWordData).                  *)
(*                                                                         *)
(* Numbers.  A JavaScript number holding a time is modelled as an exact    *)
(* rational, stored as an integer count of ticks; one second is            *)
(* TicksPerSec ticks, chosen so that every quotient the code forms         *)
(* (ms / 1000, frame / fps, duration / tokenCount) is an integer number of *)
(* ticks.  IEEE-754 rounding of those quotients is not modelled.           *)
(*                                                                         *)
(* Text.  A string is a sequence of one-character strings.                 *)
(***************************************************************************)
EXTENDS Integers, Sequences, FiniteSets, TLC

\* ------------------------------------------------------------------ bounds
MaxWords == 17      \* longest word list handed to processTranscription
MaxSegs == 2        \* longest segment list of a raw transcription
MaxTextLen == 3     \* longest generated segment text, in characters
MaxOwnWords == 2    \* longest word array a segment brings itself
MaxT == 1           \* segment times range over 0 .. MaxT tenths of a second
MaxFrame == 6       \* frames 0 .. MaxFrame are rendered
MaxProcs == 3       \* studio subprocesses spawned in one run of the server
MaxUploads == 2     \* videos uploaded from one upload page
MaxPending == 1     \* caption requests, and auto-open timers, pending at once
MaxSize == 3        \* largest file size, and largest number in a Range header
MaxCalls == 3       \* calls of startRemotionStudio in one run of the server

\* ------------------------------------------------------- program constants
wordsPerSegment == 8
fps == 30

\* ------------------------------------------------------------- arithmetic
RECURSIVE GCD(_, _)
GCD(a, b) == IF b = 0 THEN a ELSE GCD(b, a % b)

RECURSIVE LCMUpTo(_)
LCMUpTo(n) == IF n <= 1 THEN 1
              ELSE LET l == LCMUpTo(n - 1) IN (l * n) \div GCD(l, n)

Min(a, b) == IF a <= b THEN a ELSE b
Max(a, b) == IF a >= b THEN a ELSE b

\* split(' ') of a text of MaxTextLen characters has at most MaxTextLen + 1
\* pieces, so every duration / tokenCount is a whole number of ticks.
TicksPerSec == 3000 * LCMUpTo(MaxTextLen + 1)

Seconds(n) == n * TicksPerSec
\* ms / 1000 : milliseconds to seconds
MsToSec(ms) == (ms * TicksPerSec) \div 1000
\* frame / fps
FrameToSec(f) == (f * TicksPerSec) \div fps
\* x / n for a time x (in ticks) and a count n
DivBy(x, n) == x \div n
\* 0.5 seconds, the literal of the fallback word timings
HalfSec == TicksPerSec \div 2

\* JavaScript  a || b  on numbers: 0 is falsy
JsOr(a, b) == IF a # 0 THEN a ELSE b

\* ------------------------------------------------------------------ text
Chars == {"a", " "}

\* String.prototype.split(' ')
RECURSIVE SplitFrom(_, _, _)
SplitFrom(s, i, cur) ==
  IF i > Len(s) THEN <<cur>>
  ELSE IF s[i] = " " THEN <<cur>> \o SplitFrom(s, i + 1, <<>>)
  ELSE SplitFrom(s, i + 1, Append(cur, s[i]))

split(s) == SplitFrom(s, 1, <<>>)

\* String.prototype.trim()
RECURSIVE TrimStart(_)
TrimStart(s) == IF s # <<>> /\ Head(s) = " " THEN TrimStart(Tail(s)) ELSE s

RECURSIVE TrimEnd(_)
TrimEnd(s) == IF s # <<>> /\ s[Len(s)] = " "
              THEN TrimEnd(SubSeq(s, 1, Len(s) - 1)) ELSE s

trim(s) == TrimEnd(TrimStart(s))

\* Array.prototype.join(' ')
RECURSIVE join(_)
join(ws) == IF ws = <<>> THEN <<>>
            ELSE IF Len(ws) = 1 THEN ws[1]
            ELSE ws[1] \o <<" ">> \o join(Tail(ws))

\* .filter(word => word.length > 0)
NonEmptyTokens(ws) == SelectSeq(ws, LAMBDA w : Len(w) > 0)

NoCaptionsText == <<"N", "o", " ", "c", "a", "p", "t", "i", "o", "n", "s",
                    " ", "a", "v", "a", "i", "l", "a", "b", "l", "e">>

\* ------------------------------------------------------- processTranscription
\* the single 5-second cue returned when there is nothing to segment;
\* it carries no words property
FallbackCue(raw) ==
  [id |-> 1, start |-> 0, end |-> Seconds(5),
   text |-> IF raw.hasText /\ raw.text # <<>> THEN raw.text ELSE NoCaptionsText,
   hasWords |-> FALSE, words |-> <<>>]

\* words.slice(startIdx, startIdx + wordsPerSegment)
Slice(words, startIdx, endIdx) == SubSeq(words, startIdx + 1, Min(endIdx, Len(words)))

MutCeil(a, b) == a \div b

\* Math.ceil(a / b) for a >= 0, b > 0
Ceil(a, b) == (a + b - 1) \div b

MutSegmentWords(words, index) ==
  Slice(words, index * wordsPerSegment, index * wordsPerSegment + wordsPerSegment - 1)

segmentWords(words, index) ==
  Slice(words, index * wordsPerSegment, index * wordsPerSegment + wordsPerSegment)

\* w.word, as join(' ') prints it: undefined becomes the empty string
WordProperty(w) == IF w.hasWord THEN w.word ELSE <<>>

WindowCue(words, index) ==
  LET sw == segmentWords(words, index)
  IN [id |-> index + 1,
      start |-> sw[1].start,
      end |-> sw[Len(sw)].end,
      text |-> trim(join([k \in 1..Len(sw) |-> WordProperty(sw[k])])),
      hasWords |-> TRUE,
      words |-> sw]

\* transcription.words on null raises a TypeError
processTranscriptionThrows(raw) == raw.isNull

processTranscription(raw) ==
  IF ~raw.hasWords \/ Len(raw.words) = 0
  THEN <<FallbackCue(raw)>>
  ELSE [i \in 1..Ceil(Len(raw.words), wordsPerSegment) |-> WindowCue(raw.words, i - 1)]


\* ------------------------------------------------- processWhisperTranscription
\* whisper.cpp JSON: words spread evenly over [startTime, endTime]
OffsetsTokens(text) == NonEmptyTokens(split(text))

MutOffsetsWord(allWords, wordIndex, startTime, endTime) ==
  LET segmentDuration == endTime - startTime
      wordDuration == DivBy(segmentDuration, Len(allWords))
      wordStartTime == startTime + ((wordIndex + 1) * wordDuration)
  IN [word |-> allWords[wordIndex + 1],
      start |-> wordStartTime,
      end |-> wordStartTime + wordDuration]

OffsetsWord(allWords, wordIndex, startTime, endTime) ==
  LET segmentDuration == endTime - startTime
      wordDuration == DivBy(segmentDuration, Len(allWords))
      wordStartTime == startTime + (wordIndex * wordDuration)
  IN [word |-> allWords[wordIndex + 1],
      start |-> wordStartTime,
      end |-> wordStartTime + wordDuration]

OffsetsCue(segment, index) ==
  LET startTime == JsOr(MsToSec(segment.offsets.from), 0)
      endTime == JsOr(MsToSec(segment.offsets.to), startTime + Seconds(3))
      text == IF segment.hasText THEN trim(segment.text) ELSE <<>>
      allWords == OffsetsTokens(text)
  IN [id |-> index + 1,
      start |-> startTime,
      end |-> endTime,
      text |-> text,
      hasWords |-> TRUE,
      words |-> [k \in 1..Len(allWords) |->
                   OffsetsWord(allWords, k - 1, startTime, endTime)]]

\* neither format: one 5-second cue, its words half a second apart
WhisperFallbackCue(raw) ==
  LET fullText == IF raw.hasText /\ raw.text # <<>> THEN raw.text ELSE NoCaptionsText
      ws == split(fullText)
  IN [id |-> 1, start |-> 0, end |-> Seconds(5), text |-> fullText,
      hasWords |-> TRUE,
      words |-> [k \in 1..Len(ws) |->
                   [word |-> ws[k], start |-> (k - 1) * HalfSec, end |-> k * HalfSec]]]

\* standard segments format: a word of the segment's own word array;
\* word.start || segment.start and word.end || word.start + 0.5, where a
\* missing property reads as undefined and is falsy like 0.  (A word with
\* neither start nor a truthy end gets end = NaN; the inputs have none.)
OwnWord(word, segment) ==
  [word |-> word.word,
   start |-> IF word.hasStart THEN JsOr(word.start, segment.start) ELSE segment.start,
   end |-> IF word.hasEnd /\ word.end # 0 THEN word.end ELSE word.start + HalfSec]

MutSegmentTextWord(segment, wordIndex) ==
  LET ws == split(segment.text)
      wordDuration == DivBy(segment.end - segment.start, Len(ws))
  IN [word |-> ws[wordIndex + 1],
      start |-> segment.start + (wordIndex * wordDuration),
      end |-> segment.start + (wordIndex * wordDuration)]

\* segment.text.split(' ').map(...): the same expression in the standard
\* segments format and in processGeminiTranscription
SegmentTextWord(segment, wordIndex) ==
  LET ws == split(segment.text)
      wordDuration == DivBy(segment.end - segment.start, Len(ws))
  IN [word |-> ws[wordIndex + 1],
      start |-> segment.start + (wordIndex * wordDuration),
      end |-> segment.start + ((wordIndex + 1) * wordDuration)]

SegmentTextWords(segment) ==
  [k \in 1..Len(split(segment.text)) |-> SegmentTextWord(segment, k - 1)]

StandardCue(segment, index) ==
  [id |-> index + 1,
   start |-> JsOr(segment.start, 0),
   end |-> JsOr(segment.end, segment.start + Seconds(3)),
   text |-> IF segment.hasText THEN segment.text ELSE <<>>,
   hasWords |-> TRUE,
   words |-> IF segment.hasWords
             THEN [k \in 1..Len(segment.words) |-> OwnWord(segment.words[k], segment)]
             ELSE SegmentTextWords(segment)]

\* transcription.transcription on null raises a TypeError, and so does
\* segment.text.split(' ') on a segment that has neither words nor text
processWhisperTranscriptionThrows(raw) ==
  \/ raw.isNull
  \/ /\ ~raw.hasTranscription
     /\ raw.hasSegments
     /\ \E i \in 1..Len(raw.segments) :
          ~raw.segments[i].hasWords /\ ~raw.segments[i].hasText

processWhisperTranscription(raw) ==
  IF raw.hasTranscription
  THEN [i \in 1..Len(raw.transcription) |-> OffsetsCue(raw.transcription[i], i - 1)]
  ELSE IF ~raw.hasSegments \/ Len(raw.segments) = 0
  THEN <<WhisperFallbackCue(raw)>>
  ELSE [i \in 1..Len(raw.segments) |-> StandardCue(raw.segments[i], i - 1)]

\* -------------------------------------------------- processGeminiTranscription
MutGeminiCue(segment, index) ==
  [id |-> index,
   start |-> segment.start,
   end |-> segment.end,
   text |-> segment.text,
   hasWords |-> TRUE,
   words |-> SegmentTextWords(segment)]

GeminiCue(segment, index) ==
  [id |-> index + 1,
   start |-> segment.start,
   end |-> segment.end,
   text |-> segment.text,
   hasWords |-> TRUE,
   words |-> SegmentTextWords(segment)]

\* transcription.segments on null raises a TypeError, and so does
\* segment.text.split(' ') on a segment without text
processGeminiTranscriptionThrows(raw) ==
  \/ raw.isNull
  \/ /\ raw.hasSegments
     /\ \E i \in 1..Len(raw.segments) : ~raw.segments[i].hasText

processGeminiTranscription(raw) ==
  IF ~raw.hasSegments \/ Len(raw.segments) = 0
  THEN <<FallbackCue(raw)>>
  ELSE [i \in 1..Len(raw.segments) |-> GeminiCue(raw.segments[i], i - 1)]


\* --------------------------------------------------------- CaptionedVideo
\* CAPTION_PRESETS of the upload page: dropdown key -> preset.style
PresetKeys == {"bottom-centered", "top-bar", "karaoke"}
PresetStyleOf(key) ==
  CASE key = "bottom-centered" -> "classic"
    [] key = "top-bar" -> "bar"
    [] key = "karaoke" -> "karaoke"

\* CAPTION_PRESETS: dropdown key -> preset.name, the label of the dropdown
PresetNameOf(key) ==
  CASE key = "bottom-centered" -> "Bottom Centered"
    [] key = "top-bar" -> "Top Bar"
    [] key = "karaoke" -> "Karaoke Style"

\* a property that is not there
Undefined == "undefined"

\* defaultProps of the CaptionedVideo composition
DefaultProps ==
  [videoSrc |-> "", captions |-> <<>>, name |-> "Bottom Centered",
   style |-> "bottom-centered"]

NoStoredProps == [present |-> FALSE]

\* localStorage.getItem('remotionProps') is consulted unless both a video
\* source and a non-empty caption list were passed in
actualPropsOf(props, stored) ==
  IF props.videoSrc # "" /\ Len(props.captions) > 0
  THEN props
  ELSE IF stored.present
  THEN [videoSrc |-> IF stored.videoSrc # "" THEN stored.videoSrc ELSE props.videoSrc,
        captions |-> stored.captions,
        name |-> stored.name,
        style |-> stored.style]
  ELSE props

currentTimeOf(f) == FrameToSec(f)

MutIsActive(caption, currentTime) ==
  currentTime >= caption.start /\ currentTime < caption.end

\* currentTime >= caption.start && currentTime <= caption.end
IsActive(caption, currentTime) ==
  currentTime >= caption.start /\ currentTime <= caption.end

activeCaptionsOf(caps, currentTime) ==
  SelectSeq(caps, LAMBDA caption : IsActive(caption, currentTime))

\* Array.prototype.find: index of the first word containing the time, 0 if none
RECURSIVE FindFrom(_, _, _)
FindFrom(words, k, currentTime) ==
  IF k > Len(words) THEN 0
  ELSE IF currentTime >= words[k].start /\ currentTime <= words[k].end THEN k
  ELSE FindFrom(words, k + 1, currentTime)

find(words, currentTime) == FindFrom(words, 1, currentTime)

\* a rational in lowest terms
Frac(n, d) == LET g == GCD(n, d) IN [num |-> n \div g, den |-> d \div g]

Clamp(x, lo, hi) == Max(lo, Min(hi, x))

MutInterpolate01(input, inMin, inMax) ==
  IF ~(inMax > inMin)
  THEN [threw |-> TRUE]
  ELSE [threw |-> FALSE, value |-> Frac(inMax - Clamp(input, inMin, inMax), inMax - inMin)]

\* remotion interpolate(input, [inMin, inMax], [0, 1], clamp on both sides):
\* it rejects an input range that is not strictly increasing
interpolate01(input, inMin, inMax) ==
  IF ~(inMax > inMin)
  THEN [threw |-> TRUE]
  ELSE [threw |-> FALSE, value |-> Frac(Clamp(input, inMin, inMax) - inMin, inMax - inMin)]

NoWord == [found |-> FALSE]

\* the useMemo computing currentWordData; threw: interpolate raised
currentWordDataOf(style, active, currentTime) ==
  IF style # "karaoke" \/ Len(active) = 0
  THEN [threw |-> FALSE, data |-> NoWord]
  ELSE LET activeCaption == active[1]
       IN IF ~activeCaption.hasWords
          THEN [threw |-> FALSE, data |-> NoWord]
          ELSE LET k == find(activeCaption.words, currentTime)
               IN IF k = 0
                  THEN [threw |-> FALSE, data |-> NoWord]
                  ELSE LET currentWord == activeCaption.words[k]
                           p == interpolate01(currentTime, currentWord.start, currentWord.end)
                       IN IF p.threw
                          THEN [threw |-> TRUE, data |-> NoWord]
                          ELSE [threw |-> FALSE,
                                data |-> [found |-> TRUE, index |-> k,
                                          word |-> currentWord.word,
                                          start |-> currentWord.start,
                                          end |-> currentWord.end,
                                          progress |-> p.value]]

\* ------------------------------------------------------- CaptionRenderer
\* PRESET_STYLES, with the one property the layout reads
PRESET_STYLES ==
  [key \in {"bottom-centered", "top-bar", "karaoke"} |->
     [position |-> IF key = "top-bar" THEN "top" ELSE "bottom"]]

MutPresetKeyOf(style) == "bottom-centered"

\* Object.keys(PRESET_STYLES).includes(preset.style) ? preset.style : 'bottom-centered'
presetKeyOf(style) ==
  IF style \in DOMAIN PRESET_STYLES THEN style ELSE "bottom-centered"

\* UTF-16 code unit of a character; a character outside ASCII is named by
\* its code point
Lowercase == <<"a", "b", "c", "d", "e", "f", "g", "h", "i", "j", "k", "l", "m",
               "n", "o", "p", "q", "r", "s", "t", "u", "v", "w", "x", "y", "z">>

charCodeAt(c) ==
  CASE c = " " -> 32
    [] c = "N" -> 78
    [] c = "U+08FF" -> 2303
    [] c = "U+0900" -> 2304
    [] c = "U+090F" -> 2319
    [] c = "U+0915" -> 2325
    [] c = "U+092F" -> 2351
    [] c = "U+0939" -> 2361
    [] c = "U+097F" -> 2431
    [] c = "U+0980" -> 2432
    [] OTHER -> 96 + (CHOOSE i \in 1..Len(Lowercase) : Lowercase[i] = c)

MutContainsHindi(text) ==
  \E k \in 1..Len(text) : charCodeAt(text[k]) >= 2305 /\ charCodeAt(text[k]) <= 2431

\* /[\u0900-\u097F]/.test(caption.text)
containsHindi(text) ==
  \E k \in 1..Len(text) : charCodeAt(text[k]) >= 2304 /\ charCodeAt(text[k]) <= 2431

\* Math.floor(seconds * fps) for a time in ticks, seconds >= 0
FloorFrames(ticks) == (ticks * fps) \div TicksPerSec

\* renderKaraokeText: the words drawn highlighted, by position in the cue;
\* isActive = currentWordData && currentWordData.word === word.word
renderKaraokeText(caption, cwd) ==
  IF ~caption.hasWords \/ Len(caption.words) = 0
  THEN {}
  ELSE {k \in 1..Len(caption.words) : cwd.found /\ cwd.word = caption.words[k].word}

\* what one Sequence and its CaptionRenderer work out from the caption, the
\* preset and currentWordData: the Sequence window (it shows its child on
\* the frames from .. from + durationInFrames - 1), the style block, where
\* it is placed, the font family (a key of FONT_FAMILIES) and the
\* highlighted words
CaptionRenderer(caption, style, cwd, f) ==
  LET presetKey == presetKeyOf(style)
      from == FloorFrames(caption.start)
      durationInFrames == FloorFrames(caption.end - caption.start)
  IN [from |-> from,
      durationInFrames |-> durationInFrames,
      displayed |-> from <= f /\ f < from + durationInFrames,
      presetKey |-> presetKey,
      position |-> PRESET_STYLES[presetKey].position,
      containsHindi |-> containsHindi(caption.text),
      fontFamily |-> IF containsHindi(caption.text) THEN "hinglish" ELSE "english",
      karaokeText |-> presetKey = "karaoke",
      highlighted |-> IF presetKey = "karaoke" THEN renderKaraokeText(caption, cwd)
                      ELSE {}]

\* ------------------------------------------------------------------ inputs
RawBase == [isNull |-> FALSE,
            hasTranscription |-> FALSE, transcription |-> <<>>,
            hasSegments |-> FALSE, segments |-> <<>>,
            hasWords |-> FALSE, words |-> <<>>,
            hasText |-> FALSE, text |-> <<>>]

\* null in place of the transcription object
RawNull == [RawBase EXCEPT !.isNull = TRUE]

SeqsUpTo(S, n) == UNION {[1..k -> S] : k \in 0..n}

WordTexts == <<"a", "b", "c">>

OneTwoThree == <<"o", "n", "e", " ", "t", "w", "o", " ", "t", "h", "r", "e", "e">>

Texts == SeqsUpTo(Chars, MaxTextLen)

\* segment times, in milliseconds
TimesMs == {100 * k : k \in 0..MaxT}
\* distance between consecutive segments of one transcription, in ms:
\* 0 repeats the span, 100 makes neighbours touch or overlap
StridesMs == {0, 100}

\* whisper.cpp output: k segments with offsets in milliseconds
RawOffsets(k, from, to, text, stride) ==
  [RawBase EXCEPT !.hasTranscription = TRUE,
     !.transcription = [i \in 1..k |->
        [offsets |-> [from |-> from + (i - 1) * stride, to |-> to + (i - 1) * stride],
         hasText |-> TRUE, text |-> text]]]

\* segments with start / end in seconds and no word array of their own
RawSegments(k, from, to, text, stride) ==
  [RawBase EXCEPT !.hasSegments = TRUE, !.hasText = TRUE, !.text = text,
     !.segments = [i \in 1..k |->
        [start |-> MsToSec(from + (i - 1) * stride),
         end |-> MsToSec(to + (i - 1) * stride),
         hasText |-> TRUE, text |-> text, hasWords |-> FALSE, words |-> <<>>]]]

\* the same two shapes with a last segment that has no text property
RawOffsetsNoText(k) ==
  [RawBase EXCEPT !.hasTranscription = TRUE,
     !.transcription = [i \in 1..k |->
        [offsets |-> [from |-> 100 * (i - 1), to |-> 100 * i],
         hasText |-> i < k, text |-> IF i < k THEN <<"a">> ELSE <<>>]]]

RawSegmentsNoText(k) ==
  [RawBase EXCEPT !.hasSegments = TRUE,
     !.segments = [i \in 1..k |->
        [start |-> MsToSec(100 * (i - 1)), end |-> MsToSec(100 * i),
         hasText |-> i < k, text |-> IF i < k THEN <<"a">> ELSE <<>>,
         hasWords |-> FALSE, words |-> <<>>]]]

\* the timing properties of a word of a segment's own word array: each of
\* start and end is absent, 0 or positive, and a word lacking start has a
\* positive end
OwnTimings ==
  {[hasStart |-> hs, start |-> st, hasEnd |-> he, end |-> en] :
     hs \in BOOLEAN, st \in {0, MsToSec(100)}, he \in BOOLEAN, en \in {0, MsToSec(200)}}

WordTimings ==
  {w \in OwnTimings :
     /\ ~w.hasStart => (w.start = 0 /\ w.hasEnd /\ w.end # 0)
     /\ ~w.hasEnd => w.end = 0}

\* one segment over [0.1, 0.4] that brings its own words
RawOwnWords(ts) ==
  [RawBase EXCEPT !.hasSegments = TRUE,
     !.segments = <<[start |-> MsToSec(100), end |-> MsToSec(400),
                     hasText |-> TRUE, text |-> <<"a", " ", "b">>,
                     hasWords |-> TRUE,
                     words |-> [k \in 1..Len(ts) |->
                                  [word |-> <<WordTexts[k]>>,
                                   hasStart |-> ts[k].hasStart, start |-> ts[k].start,
                                   hasEnd |-> ts[k].hasEnd, end |-> ts[k].end]]]>>]

\* a word list with word-level timestamps: word i lasts dur and starts
\* gap after word i - 1 started
WordDursMs == {0, 100}
WordGapsMs == {100, 200}
RawWords(n, dur, gap) ==
  [RawBase EXCEPT !.hasWords = TRUE,
     !.words = [i \in 1..n |->
        [hasWord |-> TRUE, word |-> <<WordTexts[1 + (i % 3)]>>,
         start |-> MsToSec((i - 1) * gap),
         end |-> MsToSec((i - 1) * gap + dur)]]]

\* the same list with each word's text under the property `text` instead
\* of `word`; the word field of the model then stands for undefined
RawTextWords(n, dur, gap) ==
  [RawBase EXCEPT !.hasWords = TRUE,
     !.words = [i \in 1..n |->
        [hasWord |-> FALSE, word |-> <<>>, text |-> <<WordTexts[1 + (i % 3)]>>,
         start |-> MsToSec((i - 1) * gap),
         end |-> MsToSec((i - 1) * gap + dur)]]]

RawTextOnly(hasText, text) == [RawBase EXCEPT !.hasText = hasText, !.text = text]

OffsetsInputs ==
  {RawOffsets(k, f, t, x, d) : k \in 0..MaxSegs, f \in TimesMs, t \in TimesMs,
                               x \in Texts, d \in StridesMs}
  \cup {RawOffsets(1, 3000, 6000, OneTwoThree, 0), RawOffsets(1, 2000, 2000, <<"a">>, 0)}

SegmentsInputs ==
  {RawSegments(k, f, t, x, d) : k \in 0..MaxSegs, f \in TimesMs, t \in TimesMs,
                                x \in Texts, d \in StridesMs}
  \cup {RawSegments(1, 3000, 6000, OneTwoThree, 0), RawSegments(1, 2000, 2000, <<"a">>, 0)}

WordsInputs ==
  {RawWords(n, d, g) : n \in 0..MaxWords, d \in WordDursMs, g \in WordGapsMs}
  \cup {RawTextWords(n, d, g) : n \in {1, wordsPerSegment + 1}, d \in WordDursMs,
                                g \in WordGapsMs}

OwnWordsInputs == {RawOwnWords(ts) : ts \in SeqsUpTo(WordTimings, MaxOwnWords)}

\* "\u092F\u0939 \u090F\u0915 test" and "hello world"
YahEkTest == <<"U+092F", "U+0939", " ", "U+090F", "U+0915", " ", "t", "e", "s", "t">>
HelloWorld == <<"h", "e", "l", "l", "o", " ", "w", "o", "r", "l", "d">>

\* texts in and around the Devanagari block
ScriptTexts ==
  {YahEkTest, HelloWorld, <<"U+08FF">>, <<"U+0900">>, <<"a", "U+097F">>, <<"U+0980", "a">>}

TextOnlyInputs ==
  {RawTextOnly(h, x) : h \in BOOLEAN, x \in {<<>>, <<"a">>, <<"a", " ", "a">>}}
  \cup {RawTextOnly(TRUE, x) : x \in ScriptTexts}

\* inputs that lack what a normalizer reads
MalformedInputs ==
  {RawNull}
  \cup {RawOffsetsNoText(k) : k \in 1..MaxSegs}
  \cup {RawSegmentsNoText(k) : k \in 1..MaxSegs}

RawInputs ==
  OffsetsInputs \cup SegmentsInputs \cup OwnWordsInputs \cup WordsInputs
  \cup TextOnlyInputs
  \cup MalformedInputs

\* the frames rendered: the first ones and frame 60, two seconds in
Frames == (0..MaxFrame) \cup {60}

\* no request handled, no subprocess spawned, the upload page just loaded
ApiIdle == [phase |-> "idle", genAI |-> FALSE]
\* useState initial values of the upload page; closure is what the
\* memoized handleGenerateCaptions sees, 0 stands for null / []
UiIdle ==
  [video |-> 0, captions |-> 0, selectedPreset |-> "bottom-centered",
   closure |-> [video |-> 0, selectedPreset |-> "bottom-centered"],
   uploads |-> 0, uploading |-> {}, requests |-> {}, timers |-> {},
   remotionProps |-> [present |-> FALSE]]
RangeIdle == [phase |-> "idle"]

\* ------------------------------------------------------------------- state
VARIABLES
  transcription,   \* the raw transcription handed to the normalizer
  method,          \* which normalizer produced captions: "none" before any ran
  normalizerThrew, \* TRUE when that normalizer raised instead of returning
  captions,        \* the cue list returned by the normalizer
  storedProps,     \* localStorage 'remotionProps'
  rendered,        \* TRUE once CaptionedVideo has rendered a frame
  frame,           \* useCurrentFrame() of the last render
  props,           \* the props of the last render
  actualProps,     \* actualProps of the last render
  activeCaptions,  \* activeCaptions of the last render
  currentWordData, \* currentWordData of the last render
  renderers,       \* the CaptionRenderer of each active cue, last render
  renderThrew,     \* TRUE when the last render raised
  remotionStudioProcess, \* the server's handle: 0 for null, else a process
  procs,           \* the studio subprocesses spawned so far, in spawn order
  calls,           \* the promises startRemotionStudio has returned, in call order
  api,             \* one POST /api/generate-captions: request, progress, response
  ui,              \* the state of the upload page
  range            \* one GET /uploads/:filename: request and response

studioVars == <<remotionStudioProcess, procs, calls>>

\* the state of the server and the pages outside the caption pipeline
serverVars == <<studioVars, api, ui, range>>

vars == <<transcription, method, normalizerThrew, captions, storedProps, rendered, frame, props,
          actualProps, activeCaptions, currentWordData, renderers, renderThrew,
          serverVars>>

renderVars == <<rendered, frame, props, actualProps, activeCaptions, currentWordData,
                renderers, renderThrew>>

StudioIdle ==
  /\ remotionStudioProcess = 0
  /\ procs = <<>>
  /\ calls = <<>>

Init ==
  /\ transcription \in RawInputs
  /\ method = "none"
  /\ normalizerThrew = FALSE
  /\ captions = <<>>
  /\ storedProps = NoStoredProps
  /\ rendered = FALSE
  /\ frame = 0
  /\ props = DefaultProps
  /\ actualProps = DefaultProps
  /\ activeCaptions = <<>>
  /\ currentWordData = NoWord
  /\ renderers = <<>>
  /\ renderThrew = FALSE
  /\ StudioIdle
  /\ api = ApiIdle
  /\ ui = UiIdle
  /\ range = RangeIdle

\* Each normalizer is run on the transcriptions of the producer it serves
\* and on those that carry no list at all.
\* processTranscription: word-level transcriptions
ProcessTranscription ==
  /\ method = "none"
  /\ ~transcription.hasTranscription /\ ~transcription.hasSegments
  /\ normalizerThrew' = processTranscriptionThrows(transcription)
  /\ captions' = IF processTranscriptionThrows(transcription) THEN <<>>
                 ELSE processTranscription(transcription)
  /\ method' = "words"
  /\ UNCHANGED <<transcription, storedProps, renderVars, serverVars>>

\* processWhisperTranscription: whisper.cpp output and segment lists
ProcessWhisperTranscription ==
  /\ method = "none"
  /\ ~transcription.hasWords
  /\ normalizerThrew' = processWhisperTranscriptionThrows(transcription)
  /\ captions' = IF processWhisperTranscriptionThrows(transcription) THEN <<>>
                 ELSE processWhisperTranscription(transcription)
  /\ method' = "whisper"
  /\ UNCHANGED <<transcription, storedProps, renderVars, serverVars>>

\* processGeminiTranscription: segment lists
ProcessGeminiTranscription ==
  /\ method = "none"
  /\ ~transcription.hasWords /\ ~transcription.hasTranscription
  /\ normalizerThrew' = processGeminiTranscriptionThrows(transcription)
  /\ captions' = IF processGeminiTranscriptionThrows(transcription) THEN <<>>
                 ELSE processGeminiTranscription(transcription)
  /\ method' = "gemini"
  /\ UNCHANGED <<transcription, storedProps, renderVars, serverVars>>

\* openRemotionStudio of the upload page: the captions and the selected
\* preset go to localStorage
OpenRemotionStudio(key) ==
  /\ method # "none"
  /\ ~normalizerThrew
  /\ Len(captions) > 0
  /\ storedProps' = [present |-> TRUE, videoSrc |-> "video", captions |-> captions,
                     name |-> PresetNameOf(key), style |-> PresetStyleOf(key)]
  /\ UNCHANGED <<transcription, method, normalizerThrew, captions, renderVars, serverVars>>

\* one render of CaptionedVideo at frame f with props p
RenderWith(f, p) ==
  LET ap == actualPropsOf(p, storedProps)
      currentTime == currentTimeOf(f)
      active == activeCaptionsOf(ap.captions, currentTime)
      cwd == currentWordDataOf(ap.style, active, currentTime)
  IN /\ rendered' = TRUE
     /\ frame' = f
     /\ props' = p
     /\ actualProps' = ap
     /\ activeCaptions' = active
     /\ currentWordData' = cwd.data
     /\ renderers' = IF cwd.threw THEN <<>>
                     ELSE [k \in 1..Len(active) |->
                             CaptionRenderer(active[k], ap.style, cwd.data, f)]
     /\ renderThrew' = cwd.threw
     /\ UNCHANGED <<transcription, method, normalizerThrew, captions, storedProps,
                    serverVars>>

\* rendered with the generated captions and a preset of the caller's
\* (render --props)
RenderProps(f, style) ==
  /\ method # "none"
  /\ ~normalizerThrew
  /\ RenderWith(f, [videoSrc |-> "video", captions |-> captions, name |-> Undefined,
                    style |-> style])

\* the Player of the captioning page: shown once there are captions, with
\* the preset selected in the dropdown
RenderPlayer(f, key) ==
  /\ method # "none"
  /\ ~normalizerThrew
  /\ Len(captions) > 0
  /\ RenderWith(f, [videoSrc |-> "video", captions |-> captions,
                    name |-> PresetNameOf(key), style |-> PresetStyleOf(key)])

\* rendered in the studio with the composition's default props
RenderStudio(f) ==
  RenderWith(f, DefaultProps)

RenderStyles == {"karaoke", "bottom-centered"}

\* the caption pipeline: a transcription is normalized and the cue list is
\* rendered, frame by frame, with the cue list passed in as props
Next ==
  \/ ProcessTranscription
  \/ ProcessWhisperTranscription
  \/ ProcessGeminiTranscription
  \/ \E f \in Frames, style \in RenderStyles : RenderProps(f, style)

Spec == Init /\ [][Next]_vars

\* the studio: the upload page leaves the props in localStorage and the
\* composition, rendered with its default props, picks them up
StudioInputs ==
  {RawOffsets(k, 0, 100, x, 100) : k \in 0..MaxSegs, x \in {<<>>, <<"a">>, <<"a", " ", "a">>}}
  \cup {RawSegments(k, 0, 100, <<"a", " ", "a">>, d) : k \in 1..MaxSegs, d \in StridesMs}

InitStudio ==
  /\ Init
  /\ transcription \in StudioInputs

\* preset.style as a caller may pass it: a key of PRESET_STYLES, another
\* string, or nothing
StudioStyles == {"bottom-centered", "top-bar", "karaoke", "classic", Undefined}

NextStudio ==
  \/ ProcessWhisperTranscription
  \/ ProcessGeminiTranscription
  \/ \E key \in PresetKeys : OpenRemotionStudio(key)
  \/ \E f \in Frames, key \in PresetKeys : RenderPlayer(f, key)
  \/ \E f \in Frames, style \in StudioStyles : RenderProps(f, style)
  \/ \E f \in Frames : RenderStudio(f)

SpecStudio == InitStudio /\ [][NextStudio]_vars

\* ------------------------------------------------- startRemotionStudio
\* the caption pipeline at rest, while the server's other parts are looked at
pipelineVars == <<transcription, method, normalizerThrew, captions, storedProps, renderVars>>

PipelineIdle ==
  /\ transcription = RawBase
  /\ method = "none"
  /\ normalizerThrew = FALSE
  /\ captions = <<>>
  /\ storedProps = NoStoredProps
  /\ rendered = FALSE
  /\ frame = 0
  /\ props = DefaultProps
  /\ actualProps = DefaultProps
  /\ activeCaptions = <<>>
  /\ currentWordData = NoWord
  /\ renderers = <<>>
  /\ renderThrew = FALSE

\* resolve() / reject() of the promise of call c: a settled promise stays
Settle(cs, c, outcome) ==
  IF cs[c].state = "pending"
  THEN [cs EXCEPT ![c] = [@ EXCEPT !.state = outcome, !.readyWhenSettled = outcome = "resolved"]]
  ELSE cs

\* startRemotionStudio(): with a handle, Promise.resolve(); without one,
\* spawn, keep the handle and return the promise of that start.  spawn()
\* either starts the subprocess or fails, which is reported by 'error'.
startRemotionStudio(caller) ==
  /\ Len(calls) < MaxCalls
  /\ IF remotionStudioProcess # 0
     THEN /\ calls' = Append(calls,
                 [caller |-> caller, proc |-> remotionStudioProcess,
                  state |-> "resolved",
                  readyWhenSettled |-> procs[remotionStudioProcess].reported
                                       \/ procs[remotionStudioProcess].timerFired])
          /\ UNCHANGED <<remotionStudioProcess, procs>>
     ELSE /\ Len(procs) < MaxProcs
          /\ \E started \in BOOLEAN :
               procs' = Append(procs,
                  [status |-> IF started THEN "alive" ELSE "spawnFailed",
                   studioReady |-> FALSE, reported |-> FALSE, timerFired |-> FALSE,
                   promise |-> Len(calls) + 1])
          /\ remotionStudioProcess' = Len(procs) + 1
          /\ calls' = Append(calls,
                 [caller |-> caller, proc |-> Len(procs) + 1, state |-> "pending",
                  readyWhenSettled |-> FALSE])
  /\ UNCHANGED <<pipelineVars, api, ui, range>>

\* app.listen callback: the server starts the studio once, at startup
Startup ==
  /\ calls = <<>>
  /\ startRemotionStudio("startup")

\* POST /api/start-studio
ApiStartStudio ==
  /\ calls # <<>>
  /\ startRemotionStudio("api")

\* app.use('/studio'): starts the studio only when there is no handle
\* (with a handle the request goes straight to the proxy)
StudioRoute ==
  /\ calls # <<>>
  /\ remotionStudioProcess = 0
  /\ startRemotionStudio("studio")

\* stdout 'data' with 'Ready!' or 'localhost:3001'
StdoutReady(p) ==
  /\ procs[p].status \in {"alive", "exited"}
  /\ ~procs[p].reported
  /\ procs' = [procs EXCEPT ![p] = [@ EXCEPT !.reported = TRUE, !.studioReady = TRUE]]
  /\ calls' = IF ~procs[p].studioReady THEN Settle(calls, procs[p].promise, "resolved")
              ELSE calls
  /\ UNCHANGED <<remotionStudioProcess, pipelineVars, api, ui, range>>

\* the 30-second timer of a start
StartupTimeout(p) ==
  /\ ~procs[p].timerFired
  /\ procs' = [procs EXCEPT ![p] = [@ EXCEPT !.timerFired = TRUE]]
  /\ calls' = IF ~procs[p].studioReady THEN Settle(calls, procs[p].promise, "resolved")
              ELSE calls
  /\ UNCHANGED <<remotionStudioProcess, pipelineVars, api, ui, range>>

\* 'error': the subprocess could not be spawned
OnError(p) ==
  /\ procs[p].status = "spawnFailed"
  /\ procs' = [procs EXCEPT ![p] = [@ EXCEPT !.status = "errored"]]
  /\ remotionStudioProcess' = 0
  /\ calls' = Settle(calls, procs[p].promise, "rejected")
  /\ UNCHANGED <<pipelineVars, api, ui, range>>

\* the subprocess ends
Exit(p) ==
  /\ procs[p].status = "alive"
  /\ procs' = [procs EXCEPT ![p] = [@ EXCEPT !.status = "exited"]]
  /\ UNCHANGED <<remotionStudioProcess, calls, pipelineVars, api, ui, range>>

\* 'close': emitted once the subprocess has ended (or failed to start) and
\* its stdio streams are closed
OnClose(p) ==
  /\ procs[p].status \in {"exited", "errored"}
  /\ procs' = [procs EXCEPT ![p] = [@ EXCEPT !.status = "closed"]]
  /\ remotionStudioProcess' = 0
  /\ UNCHANGED <<calls, pipelineVars, api, ui, range>>

InitServer ==
  /\ PipelineIdle
  /\ StudioIdle
  /\ api = ApiIdle
  /\ ui = UiIdle
  /\ range = RangeIdle

NextServer ==
  \/ Startup
  \/ ApiStartStudio
  \/ StudioRoute
  \/ \E p \in 1..Len(procs) : StdoutReady(p)
  \/ \E p \in 1..Len(procs) : StartupTimeout(p)
  \/ \E p \in 1..Len(procs) : OnError(p)
  \/ \E p \in 1..Len(procs) : Exit(p)
  \/ \E p \in 1..Len(procs) : OnClose(p)

SpecServer == InitServer /\ [][NextServer]_vars

\* ------------------------------------------------- /api/generate-captions
\* demoTexts of generateDemoCaptions
DemoText1 ==
  <<"W", "e", "l", "c", "o", "m", "e", " ", "t", "o", " ", "t", "h", "i",
    "s", " ", "a", "m", "a", "z", "i", "n", "g", " ", "v", "i", "d", "e",
    "o", " ", "d", "e", "m", "o", "n", "s", "t", "r", "a", "t", "i", "o",
    "n">>

DemoText2 ==
  <<"U+092F", "U+0939", " ", "U+090F", "U+0915", " ", "U+092C", "U+0947",
    "U+0939", "U+0924", "U+0930", "U+0940", "U+0928", " ", "U+0935",
    "U+0940", "U+0921", "U+093F", "U+092F", "U+094B", " ", "U+0915",
    "U+093E", " ", "U+0909", "U+0926", "U+093E", "U+0939", "U+0930",
    "U+0923", " ", "U+0939", "U+0948">>

DemoText3 ==
  <<"T", "h", "i", "s", " ", "s", "h", "o", "w", "s", " ", "h", "o", "w",
    " ", "c", "a", "p", "t", "i", "o", "n", "s", " ", "w", "o", "r", "k",
    " ", "p", "e", "r", "f", "e", "c", "t", "l", "y">>

DemoText4 ==
  <<"M", "u", "l", "t", "i", "p", "l", "e", " ", "s", "t", "y", "l", "e",
    "s", " ", "U+0914", "U+0930", " ", "e", "f", "f", "e", "c", "t", "s",
    " ", "U+0915", "U+0947", " ", "U+0938", "U+093E", "U+0925">>

DemoText5 ==
  <<"B", "e", "a", "u", "t", "i", "f", "u", "l", " ", "t", "y", "p", "o",
    "g", "r", "a", "p", "h", "y", " ", "a", "n", "d", " ", "s", "m", "o",
    "o", "t", "h", " ", "a", "n", "i", "m", "a", "t", "i", "o", "n", "s">>

DemoText6 ==
  <<"P", "e", "r", "f", "e", "c", "t", " ", "f", "o", "r", " ", "a", "l",
    "l", " ", "y", "o", "u", "r", " ", "v", "i", "d", "e", "o", " ", "n",
    "e", "e", "d", "s">>

demoTexts == <<DemoText1, DemoText2, DemoText3, DemoText4, DemoText5, DemoText6>>

\* 0.4 seconds, the word step of the demo captions
FourTenthsSec == (2 * TicksPerSec) \div 5

generateDemoCaptions ==
  [i \in 1..Len(demoTexts) |->
     LET index == i - 1
         ws == split(demoTexts[i])
     IN [id |-> index + 1,
         start |-> Seconds(index * 3),
         end |-> Seconds((index + 1) * 3),
         text |-> demoTexts[i],
         hasWords |-> TRUE,
         words |-> [k \in 1..Len(ws) |->
                      [word |-> ws[k],
                       start |-> Seconds(index * 3) + ((k - 1) * FourTenthsSec),
                       end |-> Seconds(index * 3) + (k * FourTenthsSec)]]]]

\* res.json({success: true, captions, transcription, method});
\* text says where the transcription string comes from
Answer200(caps, text) ==
  [status |-> 200, captions |-> caps, transcription |-> text,
   method |-> IF Len(caps) > 0 THEN "demo" ELSE "failed"]

MutOnTranscriptionError(engine) == [status |-> 500]

\* the catch around a transcription: demo captions, and a transcription
\* string that quotes the error
OnTranscriptionError(engine) ==
  Answer200(generateDemoCaptions,
            IF engine = "gemini" THEN "Demo captions generated (Gemini API error: ...)"
            ELSE "Demo captions generated (Whisper.cpp error: ...)")

\* what transcribeWithGemini / transcribeWithWhisperCpp may resolve to
ApiRaws ==
  {RawOffsets(k, 0, t, x, 100) : k \in 0..MaxSegs, t \in TimesMs, x \in Texts}
  \cup {RawSegments(k, 0, t, x, 100) : k \in 0..MaxSegs, t \in TimesMs, x \in Texts}
  \cup TextOnlyInputs \cup MalformedInputs

\* the handler up to the transcription call.  videoPath is absent, a string
\* or a number (path.join raises on a number: the outer catch answers 500)
PostGenerateCaptions(videoPath, exists, method_) ==
  /\ api.phase = "idle"
  /\ LET request == [videoPath |-> videoPath, exists |-> exists, method |-> method_]
         m == IF method_ = Undefined THEN "gemini" ELSE method_
     IN api' =
          IF videoPath = "absent"
          THEN [api EXCEPT !.phase = "responded"] @@
               [request |-> request, outcome |-> "rejected request",
                response |-> [status |-> 400]]
          ELSE IF videoPath = "number"
          THEN [api EXCEPT !.phase = "responded"] @@
               [request |-> request, outcome |-> "raised outside transcription",
                response |-> [status |-> 500]]
          ELSE IF ~exists
          THEN [api EXCEPT !.phase = "responded"] @@
               [request |-> request, outcome |-> "rejected request",
                response |-> [status |-> 404]]
          ELSE IF m = "gemini" /\ api.genAI
          THEN [api EXCEPT !.phase = "transcribing"] @@
               [request |-> request, engine |-> "gemini"]
          ELSE IF m = "whisper"
          THEN [api EXCEPT !.phase = "transcribing"] @@
               [request |-> request, engine |-> "whisper"]
          ELSE [api EXCEPT !.phase = "responded"] @@
               [request |-> request,
                outcome |-> IF m = "gemini" THEN "unavailable" ELSE "demo requested",
                response |-> Answer200(generateDemoCaptions,
                                       "Demo captions generated (for testing purposes)")]
  /\ UNCHANGED <<pipelineVars, studioVars, ui, range>>

\* the transcription call resolves with raw: the normalizer of the engine
\* runs inside the same try, so what it raises is caught as well
TranscriptionResolves(raw) ==
  /\ api.phase = "transcribing"
  /\ LET threw == IF api.engine = "gemini" THEN processGeminiTranscriptionThrows(raw)
                  ELSE processWhisperTranscriptionThrows(raw)
         caps == IF api.engine = "gemini" THEN processGeminiTranscription(raw)
                 ELSE processWhisperTranscription(raw)
     IN api' = [api EXCEPT !.phase = "responded"] @@
               [outcome |-> IF threw THEN "normalizer raised" ELSE "transcribed",
                response |-> IF threw THEN OnTranscriptionError(api.engine)
                             ELSE Answer200(caps, IF raw.hasText THEN raw.text
                                                  ELSE Undefined)]
  /\ UNCHANGED <<pipelineVars, studioVars, ui, range>>

\* the transcription call rejects: the engine failed, or whisper.cpp ran
\* into its 60-second timeout
TranscriptionRejects(why) ==
  /\ api.phase = "transcribing"
  /\ why = "timed out" => api.engine = "whisper"
  /\ api' = [api EXCEPT !.phase = "responded"] @@
            [outcome |-> why, response |-> OnTranscriptionError(api.engine)]
  /\ UNCHANGED <<pipelineVars, studioVars, ui, range>>

InitApi ==
  /\ PipelineIdle
  /\ StudioIdle
  /\ api \in {[phase |-> "idle", genAI |-> g] : g \in BOOLEAN}
  /\ ui = UiIdle
  /\ range = RangeIdle

NextApi ==
  \/ \E videoPath \in {"absent", "string", "number"}, exists \in BOOLEAN,
        method_ \in {"gemini", "whisper", "demo", Undefined} :
       PostGenerateCaptions(videoPath, exists, method_)
  \/ \E raw \in ApiRaws : TranscriptionResolves(raw)
  \/ \E why \in {"failed", "timed out"} : TranscriptionRejects(why)

SpecApi == InitApi /\ [][NextApi]_vars

\* ------------------------------------------------------------ upload page
\* A video is named by the number of its upload; a caption list by the video
\* it was generated for.
\* the preset dropdown: setSelectedPreset
HandlePresetChange(key) ==
  /\ key # ui.selectedPreset
  /\ ui' = [ui EXCEPT !.selectedPreset = key]
  /\ UNCHANGED <<pipelineVars, studioVars, api, range>>

\* handleVideoUpload up to the fetch of /api/upload
HandleVideoUpload ==
  /\ ui.uploads < MaxUploads
  /\ ui' = [ui EXCEPT !.uploads = @ + 1, !.uploading = @ \cup {ui.uploads + 1}]
  /\ UNCHANGED <<pipelineVars, studioVars, api, range>>

\* the upload answers: setVideo(result.video) when it is ok.  With the new
\* video the page re-renders and handleGenerateCaptions, memoized on
\* [video], is made anew over the video and the preset of that render.
UploadAnswered(v, ok) ==
  /\ v \in ui.uploading
  /\ ui' = IF ok
           THEN [ui EXCEPT !.uploading = @ \ {v}, !.video = v,
                           !.closure = [video |-> v, selectedPreset |-> ui.selectedPreset]]
           ELSE [ui EXCEPT !.uploading = @ \ {v}]
  /\ UNCHANGED <<pipelineVars, studioVars, api, range>>

\* handleGenerateCaptions up to the fetch of /api/generate-captions
HandleGenerateCaptions ==
  /\ ui.closure.video # 0
  /\ Cardinality(ui.requests) < MaxPending
  /\ ui' = [ui EXCEPT !.requests = @ \cup {ui.closure}]
  /\ UNCHANGED <<pipelineVars, studioVars, api, range>>

\* the caption request answers: setCaptions(result.captions) and the
\* 3-second timer of the auto-open, both inside the call that sent it
CaptionsAnswered(request, ok) ==
  /\ request \in ui.requests
  /\ ok => Cardinality(ui.timers) < MaxPending
  /\ ui' = IF ok
           THEN [ui EXCEPT !.requests = @ \ {request}, !.captions = request.video,
                           !.timers = @ \cup {request}]
           ELSE [ui EXCEPT !.requests = @ \ {request}]
  /\ UNCHANGED <<pipelineVars, studioVars, api, range>>

\* the timer fires: remotionProps goes to localStorage.  selectedNow is
\* the dropdown's value at that moment, kept for comparison.
AutoOpenStudio(timer) ==
  /\ timer \in ui.timers
  /\ ui' = [ui EXCEPT !.timers = @ \ {timer},
                      !.remotionProps =
                         [present |-> TRUE, videoSrc |-> timer.video,
                          captions |-> timer.video,
                          preset |-> [name |-> PresetNameOf(timer.selectedPreset),
                                      style |-> PresetStyleOf(timer.selectedPreset)],
                          selectedNow |-> ui.selectedPreset]]
  /\ UNCHANGED <<pipelineVars, studioVars, api, range>>

InitUi ==
  /\ PipelineIdle
  /\ StudioIdle
  /\ api = ApiIdle
  /\ ui = UiIdle
  /\ range = RangeIdle

NextUi ==
  \/ \E key \in PresetKeys : HandlePresetChange(key)
  \/ HandleVideoUpload
  \/ \E v \in 1..MaxUploads, ok \in BOOLEAN : UploadAnswered(v, ok)
  \/ HandleGenerateCaptions
  \/ \E request \in ui.requests, ok \in BOOLEAN : CaptionsAnswered(request, ok)
  \/ \E timer \in ui.timers : AutoOpenStudio(timer)

SpecUi == InitUi /\ [][NextUi]_vars

\* ------------------------------------------------- GET /uploads/:filename
\* One side of "bytes=<start>-<end>": digits, nothing, or something parseInt
\* cannot read.
NotANumber == [nan |-> TRUE]
Number(n) == [nan |-> FALSE, value |-> n]

RangeParts ==
  {[kind |-> "digits", value |-> n] : n \in 0..MaxSize}
  \cup {[kind |-> "empty"], [kind |-> "letters"]}

\* parseInt(part, 10)
parseInt(part) == IF part.kind = "digits" THEN Number(part.value) ELSE NotANumber

\* a comparison of two numbers; with NaN on either side it is false
Gt(a, b) == ~a.nan /\ ~b.nan /\ a.value > b.value
Geq(a, b) == ~a.nan /\ ~b.nan /\ a.value >= b.value

\* the Range branch up to the validation: start, end, and whether the
\* request is turned down
ParsedRange(startPart, endPart, fileSize) ==
  LET start == parseInt(startPart)
      end == IF endPart.kind # "empty" THEN parseInt(endPart) ELSE Number(fileSize - 1)
  IN [start |-> start, end |-> end,
      rejected |-> Geq(start, Number(fileSize)) \/ Geq(end, Number(fileSize))
                   \/ Gt(start, end)]

\* the answer to a request with a Range header.  fs.createReadStream is
\* handed start and end as they are; with NaN it raises before any status
\* is set in the Node versions that validate them (the request ends as a
\* 500) and is let through in those that do not (206 with NaN in the
\* headers): raised says which.
RangeAnswer(startPart, endPart, fileSize, raised) ==
  LET r == ParsedRange(startPart, endPart, fileSize)
  IN IF r.rejected
     THEN [status |-> 416, contentRange |-> [unit |-> "bytes", range |-> "*",
                                            size |-> fileSize]]
     ELSE IF (r.start.nan \/ r.end.nan) /\ raised
     THEN [status |-> 500]
     ELSE [status |-> 206,
           contentRange |-> [unit |-> "bytes", start |-> r.start, end |-> r.end,
                             size |-> fileSize],
           contentLength |-> IF r.start.nan \/ r.end.nan THEN NotANumber
                             ELSE Number((r.end.value - r.start.value) + 1)]

GetUpload(raised) ==
  /\ range.phase = "requested"
  /\ range' = [range EXCEPT !.phase = "answered"] @@
              [response |-> RangeAnswer(range.startPart, range.endPart, range.fileSize,
                                        raised)]
  /\ UNCHANGED <<pipelineVars, studioVars, api, ui>>

InitRange ==
  /\ PipelineIdle
  /\ StudioIdle
  /\ api = ApiIdle
  /\ ui = UiIdle
  /\ range \in {[phase |-> "requested", fileSize |-> size, startPart |-> a, endPart |-> b] :
                  size \in 0..MaxSize, a \in RangeParts, b \in RangeParts}

NextRange == \E raised \in BOOLEAN : GetUpload(raised)

SpecRange == InitRange /\ [][NextRange]_vars

\* ==================================================================== claims
RECURSIVE Concat(_)
Concat(ss) == IF ss = <<>> THEN <<>> ELSE Head(ss) \o Concat(Tail(ss))

Segmented == method = "words" /\ transcription.hasWords /\ Len(transcription.words) >= 1

\* C1: the cues of word-window segmentation hold, concatenated in cue order,
\* exactly the input words in input order: none dropped, duplicated or moved,
\* so the windows are contiguous and do not overlap.
C1_WordsPreserved ==
  Segmented =>
    /\ Concat([i \in 1..Len(captions) |-> captions[i].words]) = transcription.words
    /\ \A i \in 1..Len(captions) :
         captions[i].words =
           SubSeq(transcription.words,
                  1 + Len(Concat([j \in 1..(i - 1) |-> captions[j].words])),
                  Len(Concat([j \in 1..i |-> captions[j].words])))

C1_Witness ==
  /\ Segmented
  /\ Len(transcription.words) = 17
  /\ Len(captions) = 3
  /\ captions[3].words = <<transcription.words[17]>>

\* C2: n >= 1 words give ceil(n / 8) cues, all of 8 words except the last,
\* which has 1 to 8; the ids are 1, 2, ... in order.
C2_WindowCount ==
  Segmented =>
    LET n == Len(transcription.words)
        c == Len(captions)
    IN /\ 8 * (c - 1) < n /\ n <= 8 * c
       /\ \A i \in 1..c :
            /\ captions[i].id = i
            /\ i < c => Len(captions[i].words) = 8
            /\ i = c => Len(captions[i].words) \in 1..8

C2_Witness ==
  /\ Segmented
  /\ Len(transcription.words) = 17
  /\ [i \in 1..Len(captions) |-> Len(captions[i].words)] = <<8, 8, 1>>
  /\ [i \in 1..Len(captions) |-> captions[i].id] = <<1, 2, 3>>

\* the cues whose words were spread evenly over a span, with that span:
\* the offsets path divides [startTime, endTime], the standard segments path
\* and the Gemini path divide [segment.start, segment.end]
Synthesized ==
  IF method = "whisper" /\ transcription.hasTranscription
  THEN [i \in 1..Len(captions) |->
          [words |-> captions[i].words, start |-> captions[i].start,
           end |-> captions[i].end, path |-> "offsets"]]
  ELSE IF method \in {"whisper", "gemini"} /\ transcription.hasSegments
          /\ Len(transcription.segments) > 0
  THEN [i \in 1..Len(captions) |->
          [words |-> IF transcription.segments[i].hasWords THEN <<>>
                     ELSE captions[i].words,
           start |-> transcription.segments[i].start,
           end |-> transcription.segments[i].end,
           path |-> IF method = "gemini" THEN "gemini" ELSE "standard"]]
  ELSE <<>>

C4_SubdivisionFormula ==
  /\ \A i \in 1..Len(Synthesized) :
       LET s == Synthesized[i]
           n == Len(s.words)
       IN \A k \in 1..n :
            /\ n * (s.words[k].start - s.start) = (k - 1) * (s.end - s.start)
            /\ n * (s.words[k].end - s.start) = k * (s.end - s.start)
  /\ \A i \in 1..Len(Synthesized) :
       (Synthesized[i].start = Seconds(3) /\ Synthesized[i].end = Seconds(6)
        /\ captions[i].text = OneTwoThree) =>
         Synthesized[i].words =
           << [word |-> <<"o", "n", "e">>, start |-> Seconds(3), end |-> Seconds(4)],
              [word |-> <<"t", "w", "o">>, start |-> Seconds(4), end |-> Seconds(5)],
              [word |-> <<"t", "h", "r", "e", "e">>, start |-> Seconds(5),
               end |-> Seconds(6)] >>

C4_Witness ==
  /\ method = "gemini"
  /\ Len(Synthesized) = 1
  /\ Synthesized[1].start = Seconds(3) /\ Synthesized[1].end = Seconds(6)
  /\ captions[1].text = OneTwoThree
  /\ Len(captions[1].words) = 3

IsBlank(text) == \A k \in 1..Len(text) : text[k] = " "

\* C5: wherever word timing is synthesized from a segment's text, no word has
\* empty text and a blank or empty text yields no words.
C5_NoEmptyTokens ==
  \A i \in 1..Len(Synthesized) :
    /\ \A k \in 1..Len(Synthesized[i].words) : Synthesized[i].words[k].word # <<>>
    /\ IsBlank(captions[i].text) => Synthesized[i].words = <<>>

\* the cue list and the time the last render resolved against
RenderedCues == actualProps.captions
RenderedStyle == actualProps.style
RenderedTime == currentTimeOf(frame)

Covers(x, t) == x.start <= t /\ t <= x.end

ActiveIndices == {i \in 1..Len(RenderedCues) : Covers(RenderedCues[i], RenderedTime)}

\* the k-th smallest member of a set of naturals
Kth(S, k) == CHOOSE i \in S : Cardinality({j \in S : j < i}) = k - 1

\* C6: activeCaptions is exactly the cues with start <= t <= end, in
\* transcript order: cues touching at t are both there, and a time outside
\* every span gives the empty list.
C6_ActiveCues ==
  rendered =>
    /\ Len(activeCaptions) = Cardinality(ActiveIndices)
    /\ \A k \in 1..Len(activeCaptions) :
         activeCaptions[k] = RenderedCues[Kth(ActiveIndices, k)]

C6_Witness ==
  /\ rendered
  /\ Len(RenderedCues) = 2
  /\ RenderedCues[1].start < RenderedTime
  /\ RenderedCues[1].end = RenderedTime
  /\ RenderedCues[2].start = RenderedTime
  /\ RenderedTime < RenderedCues[2].end
  /\ activeCaptions = RenderedCues

\* a karaoke render that resolves the active word on its first active cue
Resolving == rendered /\ RenderedStyle = "karaoke" /\ Len(activeCaptions) > 0

ResolvedCueWords == IF activeCaptions[1].hasWords THEN activeCaptions[1].words ELSE <<>>

Matching == {k \in 1..Len(ResolvedCueWords) : Covers(ResolvedCueWords[k], RenderedTime)}

\* C7: active-word resolution returns the first word, in word order, with
\* start <= t <= end, and none when the cue has no words or none matches.
C7_FirstMatchingWord ==
  Resolving =>
    /\ ~renderThrew
    /\ Matching = {} => currentWordData = NoWord
    /\ Matching # {} =>
         /\ currentWordData.found
         /\ currentWordData.index = Kth(Matching, 1)
         /\ currentWordData.word = ResolvedCueWords[Kth(Matching, 1)].word

\* C8: a matching word with start = end is returned with progress 1, and
\* nothing is raised.
C8_ZeroLengthWord ==
  (Resolving /\ Matching # {}
   /\ ResolvedCueWords[Kth(Matching, 1)].start = ResolvedCueWords[Kth(Matching, 1)].end) =>
    /\ ~renderThrew
    /\ currentWordData.found
    /\ currentWordData.progress = [num |-> 1, den |-> 1]

\* C9: for a found word with start < end, progress is
\* (t - start) / (end - start), within [0, 1]: 0 at start and 1 at end.
C9_Progress ==
  (rendered /\ currentWordData.found /\ currentWordData.start < currentWordData.end) =>
    LET p == currentWordData.progress
        g == (currentWordData.end - currentWordData.start) \div p.den
    IN /\ p.den > 0 /\ 0 <= p.num /\ p.num <= p.den
       /\ g > 0
       /\ currentWordData.end - currentWordData.start = g * p.den
       /\ RenderedTime - currentWordData.start = g * p.num

C9_Witness ==
  /\ rendered
  /\ currentWordData.found
  /\ currentWordData.start < RenderedTime
  /\ RenderedTime < currentWordData.end
  /\ currentWordData.progress = [num |-> 1, den |-> 3]

NonOverlapping(words) ==
  \A i, j \in 1..Len(words) :
    i < j => (words[i].end < words[j].start \/ words[j].end < words[i].start)

\* C10: on a cue whose word spans do not overlap, a time outside every word
\* span resolves to none and a time inside a word span resolves to that word.
C10_ExactlyOneWord ==
  (Resolving /\ NonOverlapping(ResolvedCueWords)) =>
    /\ ~renderThrew
    /\ Matching = {} => currentWordData = NoWord
    /\ \A k \in Matching : currentWordData.found /\ currentWordData.index = k

\* a normalizer has run on a transcription object that has neither a
\* non-empty word list nor a non-empty segment list of either format
NothingToSegment ==
  /\ method # "none"
  /\ ~transcription.isNull
  /\ ~transcription.hasWords \/ Len(transcription.words) = 0
  /\ ~transcription.hasSegments \/ Len(transcription.segments) = 0
  /\ ~transcription.hasTranscription \/ Len(transcription.transcription) = 0

PlaceholderCue ==
  [id |-> 1, start |-> 0, end |-> Seconds(5),
   text |-> IF transcription.hasText /\ transcription.text # <<>>
            THEN transcription.text ELSE NoCaptionsText,
   hasWords |-> FALSE, words |-> <<>>]

\* C11: with no non-empty word list and no non-empty segment list, every
\* normalizer returns exactly one cue: id 1, start 0, end 5, the raw text or
\* "No captions available" as text, and no words.
C11_FallbackCue ==
  NothingToSegment => (~normalizerThrew /\ captions = <<PlaceholderCue>>)

\* C12: no normalizer raises, whatever the raw input (null, no recognized
\* field, segments without text): each returns a non-empty cue list.
C12_NeverRaises ==
  method # "none" => (~normalizerThrew /\ Len(captions) >= 1)

OffsetsNormalized ==
  method = "whisper" /\ ~normalizerThrew /\ transcription.hasTranscription

\* C13: a whisper.cpp segment with non-negative millisecond offsets gives a
\* cue with start = offsets.from / 1000 and end = offsets.to / 1000.
C13_OffsetsToSeconds ==
  OffsetsNormalized =>
    /\ Len(captions) = Len(transcription.transcription)
    /\ \A i \in 1..Len(captions) :
         /\ captions[i].start = MsToSec(transcription.transcription[i].offsets.from)
         /\ captions[i].end = MsToSec(transcription.transcription[i].offsets.to)

StandardNormalized ==
  /\ method = "whisper" /\ ~normalizerThrew
  /\ ~transcription.hasTranscription
  /\ transcription.hasSegments /\ Len(transcription.segments) > 0

\* C14: a segment's own words are kept in order; a word keeps its own start
\* and end when it has them, 0 included, and gets the segment's start or
\* end for the one it lacks.
C14_OwnWords ==
  StandardNormalized =>
    \A i \in 1..Len(transcription.segments) :
      LET segment == transcription.segments[i]
      IN segment.hasWords =>
           /\ Len(captions[i].words) = Len(segment.words)
           /\ \A k \in 1..Len(segment.words) :
                /\ captions[i].words[k].word = segment.words[k].word
                /\ captions[i].words[k].start =
                     IF segment.words[k].hasStart THEN segment.words[k].start
                     ELSE segment.start
                /\ captions[i].words[k].end =
                     IF segment.words[k].hasEnd THEN segment.words[k].end
                     ELSE segment.end

\* C15: k >= 1 segments of either format give exactly k cues in segment
\* order, the i-th with id i.
C15_OneCuePerSegment ==
  /\ OffsetsNormalized =>
       /\ Len(captions) = Len(transcription.transcription)
       /\ \A i \in 1..Len(captions) :
            /\ captions[i].id = i
            /\ captions[i].start = MsToSec(transcription.transcription[i].offsets.from)
            /\ captions[i].text =
                 IF transcription.transcription[i].hasText
                 THEN trim(transcription.transcription[i].text) ELSE <<>>
  /\ (StandardNormalized \/ (method = "gemini" /\ ~normalizerThrew
                              /\ transcription.hasSegments
                              /\ Len(transcription.segments) > 0)) =>
       /\ Len(captions) = Len(transcription.segments)
       /\ \A i \in 1..Len(captions) :
            /\ captions[i].id = i
            /\ captions[i].start = transcription.segments[i].start
            /\ transcription.segments[i].hasText =>
                 captions[i].text = transcription.segments[i].text

C15_Witness ==
  /\ StandardNormalized
  /\ Len(transcription.segments) = 2
  /\ transcription.segments[1].start < transcription.segments[2].start
  /\ [i \in 1..Len(captions) |-> captions[i].id] = <<1, 2>>
  /\ captions[1].start < captions[2].start

\* the text of an input word, from its `word` or its `text` property
WordText(w) == IF w.hasWord THEN w.word ELSE w.text

\* C16: a word-window cue starts at its first word's start, ends at its last
\* word's end, has its words' texts (from `word` or `text`) joined by single
\* spaces and trimmed as text, and has the window's input words as words.
C16_WindowCue ==
  Segmented =>
    \A i \in 1..Len(captions) :
      LET window == SubSeq(transcription.words, 8 * (i - 1) + 1,
                           Min(8 * i, Len(transcription.words)))
      IN /\ captions[i].words = window
         /\ captions[i].start = window[1].start
         /\ captions[i].end = window[Len(window)].end
         /\ captions[i].text = trim(join([k \in 1..Len(window) |-> WordText(window[k])]))

\* C17: a preset style that is not bottom-centered, top-bar or karaoke, or
\* is absent, is rendered with the bottom-centered style and nothing is
\* raised; one of the three keys is rendered with its own style.
C17_PresetFallback ==
  rendered =>
    LET known == RenderedStyle \in {"bottom-centered", "top-bar", "karaoke"}
    IN /\ ~known => ~renderThrew
       /\ \A k \in 1..Len(renderers) :
            /\ renderers[k].presetKey = IF known THEN RenderedStyle ELSE "bottom-centered"
            /\ renderers[k].position =
                 IF RenderedStyle = "top-bar" THEN "top" ELSE "bottom"

C17_Witness ==
  /\ rendered
  /\ RenderedStyle = Undefined
  /\ Len(renderers) = 2
  /\ renderers[1].presetKey = "bottom-centered"

\* C18: the style chosen in the dropdown is the style rendered: Bottom
\* Centered gives bottom-centered, Top Bar gives top-bar placed at the top,
\* Karaoke gives karaoke with its word-by-word text.
C18_DropdownStyle ==
  rendered =>
    \A k \in 1..Len(renderers) :
      /\ actualProps.name = "Bottom Centered" =>
           renderers[k].presetKey = "bottom-centered"
      /\ actualProps.name = "Top Bar" =>
           (renderers[k].presetKey = "top-bar" /\ renderers[k].position = "top")
      /\ actualProps.name = "Karaoke Style" =>
           (renderers[k].presetKey = "karaoke" /\ renderers[k].karaokeText)

DevanagariBlock == {"U+0900", "U+090F", "U+0915", "U+092F", "U+0939", "U+097F"}

\* C19: a cue is rendered with the family covering Devanagari exactly when
\* its text has a code point in U+0900..U+097F, and with the latin family
\* otherwise; "\u092F\u0939 \u090F\u0915 test" is mixed-script and
\* "hello world" is latin-only.
C19_ScriptDetection ==
  rendered =>
    \A k \in 1..Len(renderers) :
      LET text == activeCaptions[k].text
          mixed == \E j \in 1..Len(text) : text[j] \in DevanagariBlock
      IN /\ renderers[k].containsHindi = mixed
         /\ renderers[k].fontFamily = IF mixed THEN "hinglish" ELSE "english"
         /\ text = YahEkTest => renderers[k].fontFamily = "hinglish"
         /\ text = HelloWorld => renderers[k].fontFamily = "english"

C19_Witness ==
  /\ rendered
  /\ Len(renderers) = 1
  /\ activeCaptions[1].text = <<"a", "U+097F">>
  /\ renderers[1].fontFamily = "hinglish"

\* C20: the active cues of a render are a function of the cue list passed in
\* and the time alone, whatever another component has put in the store.
C20_DependsOnArguments ==
  rendered => activeCaptions = activeCaptionsOf(props.captions, currentTimeOf(frame))

Alive == {p \in 1..Len(procs) : procs[p].status = "alive"}

\* C21: whatever the order of /api/start-studio requests, /studio requests,
\* the startup call and the close and error events, at most one studio
\* subprocess spawned by the server is alive at a time.
C21_OneStudioProcess == Cardinality(Alive) <= 1

\* C22: a promise returned by startRemotionStudio is resolved only once the
\* subprocess has reported readiness on stdout or the 30-second timer of its
\* start has fired, also for a caller that arrives during an earlier start.
C22_ResolvedWhenReady ==
  \A c \in 1..Len(calls) : calls[c].state = "resolved" => calls[c].readyWhenSettled

Responded == api.phase = "responded"

\* the transcription step of the request did not yield captions
TranscriptionFailed ==
  Responded /\ api.outcome \in {"failed", "timed out", "unavailable", "normalizer raised"}

\* C23: when the selected Gemini or whisper.cpp transcription fails, times
\* out or is unavailable, the answer is 200 with the (non-empty) demo
\* captions and an explanatory transcription string; a 500 is answered only
\* for a failure outside the transcription step.
C23_DemoFallback ==
  /\ TranscriptionFailed =>
       /\ api.response.status = 200
       /\ api.response.captions = generateDemoCaptions
       /\ Len(api.response.captions) > 0
       /\ api.response.transcription \in
            {"Demo captions generated (Gemini API error: ...)",
             "Demo captions generated (Whisper.cpp error: ...)",
             "Demo captions generated (for testing purposes)"}
  /\ (Responded /\ api.response.status = 500) =>
       api.outcome = "raised outside transcription"

C23_Witness ==
  /\ Responded
  /\ api.request.method = "whisper"
  /\ api.outcome = "timed out"
  /\ api.response.status = 200
  /\ Len(api.response.captions) = 6

\* C28: a 200 answer says method 'demo' only when its captions are the
\* built-in demo captions, never for captions of a successful transcription.
C28_DemoLabel ==
  (Responded /\ api.response.status = 200 /\ api.response.method = "demo") =>
    /\ api.outcome # "transcribed"
    /\ api.response.captions = generateDemoCaptions

\* C24: in karaoke rendering at most one word of a displayed cue is
\* highlighted, and it is a word of that cue whose span contains the
\* current time; no word of another cue displayed with it is highlighted.
C24_OneHighlightedWord ==
  (rendered /\ RenderedStyle = "karaoke") =>
    \A k \in 1..Len(renderers) :
      renderers[k].displayed =>
        /\ Cardinality(renderers[k].highlighted) <= 1
        /\ \A w \in renderers[k].highlighted :
             Covers(activeCaptions[k].words[w], RenderedTime)
        /\ k > 1 => renderers[k].highlighted = {}

\* C25: a cue active at frame f (start <= f / 30 <= end) is displayed at f:
\* f lies in its Sequence window [floor(start * 30), floor(start * 30) +
\* floor((end - start) * 30)), which is at least one frame long.
C25_ActiveIsDisplayed ==
  (rendered /\ ~renderThrew) =>
    /\ Len(renderers) = Len(activeCaptions)
    /\ \A k \in 1..Len(renderers) :
         /\ renderers[k].durationInFrames >= 1
         /\ renderers[k].from <= frame
         /\ frame < renderers[k].from + renderers[k].durationInFrames

\* C26: whatever the order of uploads, caption requests and their answers,
\* a non-empty caption list held by the page was generated for the video
\* the page holds.
C26_CaptionsOfCurrentVideo ==
  ui.captions # 0 => ui.captions = ui.video

\* C29: the preset stored in 'remotionProps' by the delayed auto-open is the
\* preset selected in the dropdown at the moment of storing.
C29_StoredPresetIsSelected ==
  ui.remotionProps.present =>
    /\ ui.remotionProps.preset.name = PresetNameOf(ui.remotionProps.selectedNow)
    /\ ui.remotionProps.preset.style = PresetStyleOf(ui.remotionProps.selectedNow)

\* C27: a Range request on a file of size S is answered 206 only when
\* 0 <= start <= end < S, with Content-Range bytes start-end/S and
\* Content-Length end - start + 1; every other range, one whose start or
\* end is not a number included, is answered 416 with Content-Range
\* bytes */S.
C27_RangeAnswer ==
  range.phase = "answered" =>
    LET S == range.fileSize
        numeric == range.startPart.kind = "digits" /\ range.endPart.kind # "letters"
        start == range.startPart.value
        end == IF range.endPart.kind = "digits" THEN range.endPart.value ELSE S - 1
    IN IF numeric /\ 0 <= start /\ start <= end /\ end < S
       THEN range.response =
              [status |-> 206,
               contentRange |-> [unit |-> "bytes", start |-> Number(start),
                                 end |-> Number(end), size |-> S],
               contentLength |-> Number(end - start + 1)]
       ELSE range.response =
              [status |-> 416,
               contentRange |-> [unit |-> "bytes", range |-> "*", size |-> S]]

====
